---- MODULE Spec2Model ----
(***************************************************************************)
(* A model of streamlit_app.py, the brain-tumour classification page.      *)
(*                                                                         *)
(* The script is rerun from the top on every interaction.  One run is the  *)
(* sequence  load model -> process image -> predict -> saliency map ->     *)
(* results panel and chart -> explanation.  Three specifications share the *)
(* definitions below:                                                      *)
(*   Spec          one run of the script, over every prediction vector;    *)
(*   SessionSpec   reruns of the script sharing the st.cache_data cache;   *)
(*   SaliencySpec  the body of generate_saliency_map, pixel by pixel.      *)
(*                                                                         *)
(* Conventions.  Python's None is "none", 0, <<>> or a record of that kind.*)
(* Sequences are 1-based: class_index here is the source's index plus one. *)
(* Probabilities and gradient magnitudes are exact rationals: integers     *)
(* over a stated denominator.  Floating-point rounding is not modelled.    *)
(***************************************************************************)
EXTENDS Integers, Sequences, FiniteSets, TLC

----------------------------------------------------------------------------
(* Bounds of the model *)

\* uploaded images are 1..NImages
NImages == 2
\* a probability is one of 0..PMax (in units of 1/PMax of the largest)
PMax == 2

(* Constants of the program *)

XceptionSide == 299
CnnSide == 224
Channels == 3

Models == {"Transfer Learning - Xception", "Custom_CNN"}

labels == <<"Glioma", "Meningioma", "No tumor", "Pituitary">>

Classes == 1..Len(labels)

----------------------------------------------------------------------------
VARIABLES
  \* inputs of a run: the widgets and the environment
  uploaded_file,    \* [kind: "none" | "corrupt" | "image", id]
  selected_model,   \* the st.radio selection
  weightsPresent,   \* [Models -> BOOLEAN]: is the model's weight file there
  serviceUp,        \* does the generative-AI endpoint answer
  net,              \* what a loaded model computes: <<model, image id>> -> vector
  \* position and history of the run
  pc,
  steps,            \* the steps begun in this run, in order
  loads,            \* the weight files a load was called on in this run
  fed,              \* the [model, shape] pairs given to a model in this run
  requests,         \* the prompts sent to the generative-AI service in this run
  \* the script's variables
  model, img_size, img_array, prediction, class_index, result,
  saliency_map, fig, explanation,
  shown,            \* what the page displays, in order
  \* st.cache_data
  cache, cacheHit

inputVars == <<uploaded_file, selected_model, weightsPresent, serviceUp>>
histVars == <<steps, loads, fed, requests>>
scriptVars == <<model, img_size, img_array, prediction, class_index, result,
                saliency_map, fig, explanation, shown>>
cacheVars == <<cache, cacheHit>>
appVars == <<inputVars, net, pc, histVars, scriptVars, cacheVars>>

\* generate_saliency_map, pixel by pixel
VARIABLES
  sal_pc,
  tape,             \* tape.gradient: per pixel, one value per colour channel
  gradients, den,   \* the map `gradients`: numerators over the denominator den
  mask,             \* the set of pixels where the boolean mask is True
  brain_gradients,  \* gradients[mask], as normalised
  threshold,        \* [num, den]
  heatmap,          \* the 8-bit index handed to the colour map
  ops               \* the operations applied so far, in order

salVars == <<sal_pc, tape, gradients, den, mask, brain_gradients, threshold,
             heatmap, ops>>

vars == <<appVars, salVars>>

----------------------------------------------------------------------------
(* Values *)

NoFile == [kind |-> "none", id |-> 0]
CorruptFile == [kind |-> "corrupt", id |-> 0]
ImageFile(i) == [kind |-> "image", id |-> i]
Uploads == {NoFile, CorruptFile} \cup {ImageFile(i) : i \in 1..NImages}

NoArray == [img |-> 0, shape |-> <<>>]
NoOverlay == [model |-> "none", img |-> 0, class_index |-> 0,
              img_size |-> <<0, 0>>, shape |-> <<>>]
NoFig == [x |-> <<>>, y |-> <<>>, marker_color |-> <<>>]

PredVectors == [Classes -> 0..PMax]

\* the vectors a session's models return: one clear winner, one tie
SessionVectors == {<<2, 1, 0, 0>>, <<0, 1, 1, 0>>}

Line(what, text, num) == [what |-> what, text |-> text, num |-> num]

----------------------------------------------------------------------------
(* Model selection: lines 144-149 and load_xception_model *)

WeightFile(m) ==
  IF m = "Transfer Learning - Xception" THEN "xception_model.weights.h5"
                                        ELSE "cnn_model.h5"

ImgSizeSwapped(m) ==
  IF m = "Transfer Learning - Xception" THEN <<CnnSide, CnnSide>>
                                        ELSE <<XceptionSide, XceptionSide>>

ImgSize(m) ==
  IF m = "Transfer Learning - Xception" THEN <<XceptionSide, XceptionSide>>
                                        ELSE <<CnnSide, CnnSide>>

\* image.load_img(target_size = (height, width)), img_to_array, expand_dims
LoadedArrayShape(target_size) == <<1, target_size[1], target_size[2], Channels>>

(* np.argmax: the first index holding the maximum *)
ArgMaxLast(v) ==
  CHOOSE i \in DOMAIN v :
    /\ \A j \in DOMAIN v : v[j] <= v[i]
    /\ \A j \in DOMAIN v : j > i => v[j] < v[i]

ArgMax(v) ==
  CHOOSE i \in DOMAIN v :
    /\ \A j \in DOMAIN v : v[j] <= v[i]
    /\ \A j \in DOMAIN v : j < i => v[j] < v[i]

----------------------------------------------------------------------------
(* Array shapes through generate_saliency_map.  ShapeError is the shape of *)
(* an operation numpy or OpenCV refuses.                                   *)

ShapeError == <<-1>>

MaxOf(a, b) == IF a >= b THEN a ELSE b

\* numpy broadcasting: align the trailing dimensions, each pair equal or 1
Broadcast(a, b) ==
  LET n == MaxOf(Len(a), Len(b))
      pa == [i \in 1..n |-> IF i <= n - Len(a) THEN 1 ELSE a[i - (n - Len(a))]]
      pb == [i \in 1..n |-> IF i <= n - Len(b) THEN 1 ELSE b[i - (n - Len(b))]]
  IN  IF a = ShapeError \/ b = ShapeError THEN ShapeError
      ELSE IF \A i \in 1..n : pa[i] = pb[i] \/ pa[i] = 1 \/ pb[i] = 1
      THEN [i \in 1..n |-> MaxOf(pa[i], pb[i])]
      ELSE ShapeError

\* tf.reduce_max(axis = -1)
ReduceLastAxis(s) == IF s = ShapeError \/ Len(s) = 0 THEN ShapeError
                     ELSE SubSeq(s, 1, Len(s) - 1)

\* ndarray.squeeze(): every dimension of length 1 goes
Squeeze(s) == IF s = ShapeError THEN ShapeError
              ELSE SelectSeq(s, LAMBDA d : d # 1)

\* cv2.resize(src, dsize): dsize is (width, height); channels are kept
CvResizeShape(s, dsize) ==
  IF s = ShapeError \/ Len(s) \notin {2, 3} THEN ShapeError
  ELSE <<dsize[2], dsize[1]>> \o SubSeq(s, 3, Len(s))

\* np.ogrid[:h, :w] gives y of shape (h, 1) and x of shape (1, w)
OgridMaskShape(s) ==
  IF s = ShapeError \/ Len(s) < 2 THEN ShapeError
  ELSE Broadcast(<<1, s[2]>>, <<s[1], 1>>)

\* a[mask] and a[mask] = b need a boolean mask of a's shape
BoolIndexShape(s, m) == IF s = m THEN s ELSE ShapeError

\* cv2.applyColorMap on a single-channel 8-bit image: a 3-channel image
ColorMapShapeGray(s) == s

ColorMapShape(s) == IF s = ShapeError \/ Len(s) # 2 THEN ShapeError
                    ELSE s \o <<Channels>>

\* the shape of superimposed_img, line 98
OverlayShape(arr_shape, size) ==
  LET grad0 == Squeeze(ReduceLastAxis(arr_shape))
      grad1 == CvResizeShape(grad0, size)
      mask0 == OgridMaskShape(grad1)
      grad2 == BoolIndexShape(Broadcast(grad1, mask0), mask0)
      heat0 == ColorMapShape(grad2)
      heat1 == CvResizeShape(heat0, size)
      original_img == Tail(arr_shape)
  IN  Broadcast(heat1, original_img)

\* what generate_saliency_map returns: the overlay of these arguments
GenerateSaliencyMap(m, arr, ci, size) ==
  [model |-> m, img |-> arr.img, class_index |-> ci, img_size |-> size,
   shape |-> OverlayShape(arr.shape, size)]

\* st.cache_data keys the stored return value on every argument
CacheKeyNoImage(m, arr, ci, size) == <<m, ci, size>>

CacheKey(m, arr, ci, size) == <<m, arr, ci, size>>

----------------------------------------------------------------------------
(* The chart: lines 206-217 *)

Perms == {p \in [Classes -> Classes] : \A i, j \in Classes : p[i] = p[j] => i = j}

\* np.argsort gives some order that sorts ascending (the default sort is not
\* stable, so equal probabilities may come in any order)
SortingPerms(v) ==
  {p \in Perms : \A i, j \in Classes : i < j => v[p[i]] <= v[p[j]]}

Reversed(s) == [i \in 1..Len(s) |-> s[Len(s) + 1 - i]]

\* marker_color, line 216
MarkerColorTopBar(sorted_labels, res) ==
  [i \in 1..Len(sorted_labels) |-> IF i = 1 THEN "red" ELSE "blue"]

MarkerColor(sorted_labels, res) ==
  [i \in 1..Len(sorted_labels) |->
     IF sorted_labels[i] = res THEN "red" ELSE "blue"]

----------------------------------------------------------------------------
(* The script, one action per step *)

RunStart ==
  /\ pc = "start"
  /\ steps = <<>> /\ loads = <<>> /\ fed = <<>> /\ requests = <<>>
  /\ model = "none" /\ img_size = <<0, 0>> /\ img_array = NoArray
  /\ prediction = <<>> /\ class_index = 0 /\ result = ""
  /\ saliency_map = NoOverlay /\ fig = NoFig /\ explanation = ""
  /\ shown = <<>>
  /\ cacheHit = FALSE

AppInit ==
  /\ uploaded_file \in Uploads
  /\ selected_model \in Models
  /\ weightsPresent \in [Models -> BOOLEAN]
  /\ serviceUp \in BOOLEAN
  /\ net = [k \in {} |-> <<>>]
  /\ cache = [k \in {} |-> NoOverlay]
  /\ RunStart

\* line 138: nothing below runs without an uploaded file
HasUploadAlways == TRUE

HasUpload == uploaded_file # NoFile

Fault == pc' = "fault"

\* line 138, no file: the run ends having done nothing
NoUpload ==
  /\ UNCHANGED salVars
  /\ pc = "start"
  /\ ~HasUpload
  /\ pc' = "done"
  /\ UNCHANGED <<inputVars, net, histVars, scriptVars, cacheVars>>

\* lines 139-149
LoadModel ==
  /\ UNCHANGED salVars
  /\ pc = "start"
  /\ HasUpload
  /\ steps' = Append(steps, "load")
  /\ loads' = Append(loads, WeightFile(selected_model))
  /\ IF weightsPresent[selected_model]
     THEN /\ model' = selected_model
          /\ img_size' = ImgSize(selected_model)
          /\ pc' = "loaded"
     ELSE /\ Fault
          /\ UNCHANGED <<model, img_size>>
  /\ UNCHANGED <<inputVars, net, fed, requests, img_array, prediction,
                 class_index, result, saliency_map, fig, explanation, shown,
                 cacheVars>>

\* lines 153-156
ProcessImage ==
  /\ UNCHANGED salVars
  /\ pc = "loaded"
  /\ steps' = Append(steps, "preprocess")
  /\ IF uploaded_file.kind = "image"
     THEN /\ img_array' = [img |-> uploaded_file.id,
                           shape |-> LoadedArrayShape(img_size)]
          /\ pc' = "preprocessed"
     ELSE /\ Fault
          /\ UNCHANGED img_array
  /\ UNCHANGED <<inputVars, net, loads, fed, requests, model, img_size,
                 prediction, class_index, result, saliency_map, fig,
                 explanation, shown, cacheVars>>

\* lines 158-166; the model returns a vector of D, the same one whenever it
\* is asked about the same image
Predict(D) ==
  /\ UNCHANGED salVars
  /\ pc = "preprocessed"
  /\ steps' = Append(steps, "predict")
  /\ fed' = Append(fed, [model |-> model, shape |-> img_array.shape])
  /\ \E v \in D :
       LET k == <<model, img_array.img>>
           ci == ArgMax(v)
       IN  /\ k \in DOMAIN net => v = net[k]
           /\ net' = [j \in DOMAIN net \cup {k} |-> IF j = k THEN v ELSE net[j]]
           /\ prediction' = v
           /\ class_index' = ci
           /\ result' = labels[ci]
           /\ shown' = shown \o <<Line("Predicted Class", labels[ci], 0),
                                  Line("Predictions", "", 0)>>
                             \o [i \in Classes |-> Line("prob", labels[i], v[i])]
  /\ pc' = "predicted"
  /\ UNCHANGED <<inputVars, loads, requests, model, img_size, img_array,
                 saliency_map, fig, explanation, cacheVars>>

\* lines 169-175; generate_saliency_map behind st.cache_data
SaliencyMap ==
  /\ UNCHANGED salVars
  /\ pc = "predicted"
  /\ steps' = Append(steps, "saliency")
  /\ LET k == CacheKey(model, img_array, class_index, img_size)
         fresh == GenerateSaliencyMap(model, img_array, class_index, img_size)
     IN  IF k \in DOMAIN cache
         THEN /\ saliency_map' = cache[k]
              /\ cacheHit' = TRUE
              /\ fed' = fed
              /\ cache' = cache
              /\ shown' = shown \o <<Line("image", "Uploaded MRI", 0),
                                     Line("image", "Saliency Map", 0)>>
              /\ pc' = "mapped"
         ELSE /\ fed' = Append(fed, [model |-> model, shape |-> img_array.shape])
              /\ cacheHit' = FALSE
              /\ IF fresh.shape = ShapeError
                 THEN /\ Fault
                      /\ UNCHANGED <<saliency_map, cache, shown>>
                 ELSE /\ saliency_map' = fresh
                      /\ cache' = [j \in DOMAIN cache \cup {k} |->
                                     IF j = k THEN fresh ELSE cache[j]]
                      /\ shown' = shown \o <<Line("image", "Uploaded MRI", 0),
                                             Line("image", "Saliency Map", 0)>>
                      /\ pc' = "mapped"
  /\ UNCHANGED <<inputVars, net, loads, requests, model, img_size, img_array,
                 prediction, class_index, result, fig, explanation>>

\* lines 179-240: the results panel and the bar chart
ShowResults ==
  /\ UNCHANGED salVars
  /\ pc = "mapped"
  /\ steps' = Append(steps, "results")
  /\ \E p \in SortingPerms(prediction) :
       LET sorted_indices == Reversed(p)
           sorted_labels == [i \in Classes |-> labels[sorted_indices[i]]]
           sorted_probabilities == [i \in Classes |-> prediction[sorted_indices[i]]]
       IN  fig' = [x |-> sorted_probabilities, y |-> sorted_labels,
                   marker_color |-> MarkerColor(sorted_labels, result)]
  /\ shown' = shown \o <<Line("panel", result, prediction[class_index]),
                         Line("chart", "Prediction Probabilities", 0)>>
  /\ pc' = "charted"
  /\ UNCHANGED <<inputVars, net, loads, fed, requests, model, img_size,
                 img_array, prediction, class_index, result, saliency_map,
                 explanation, cacheVars>>

\* the prompt of generate_explanation, lines 26-41
Prompt(img, model_prediction, confidence) ==
  [image |-> img, model_prediction |-> model_prediction,
   percent |-> confidence * 100]

\* a variant that answers with a canned text when the service is down
GenerateExplanationWithFallback ==
  /\ UNCHANGED salVars
  /\ pc = "charted"
  /\ steps' = Append(steps, "explain")
  /\ requests' = Append(requests,
                        Prompt(saliency_map, result, prediction[class_index]))
  /\ explanation' = IF serviceUp THEN "response.text" ELSE "unavailable"
  /\ shown' = shown \o <<Line("heading", "Explanation", 0),
                         Line("text", explanation', 0)>>
  /\ pc' = "done"
  /\ UNCHANGED <<inputVars, net, loads, fed, model, img_size, img_array,
                 prediction, class_index, result, saliency_map, fig, cacheVars>>

\* lines 244-248 and generate_explanation
GenerateExplanation ==
  /\ UNCHANGED salVars
  /\ pc = "charted"
  /\ steps' = Append(steps, "explain")
  /\ requests' = Append(requests,
                        Prompt(saliency_map, result, prediction[class_index]))
  /\ IF serviceUp
     THEN /\ explanation' = "response.text"
          /\ shown' = shown \o <<Line("heading", "Explanation", 0),
                                 Line("text", "response.text", 0)>>
          /\ pc' = "done"
     ELSE /\ Fault
          /\ UNCHANGED <<explanation, shown>>
  /\ UNCHANGED <<inputVars, net, loads, fed, model, img_size, img_array,
                 prediction, class_index, result, saliency_map, fig, cacheVars>>

\* an interaction after a run: the script starts again from the top, and
\* only the cache (and what the models compute) carries over
Rerun ==
  /\ UNCHANGED salVars
  /\ pc \in {"done", "fault"}
  /\ uploaded_file' \in Uploads
  /\ selected_model' \in Models
  /\ weightsPresent' \in [Models -> BOOLEAN]
  /\ serviceUp' \in BOOLEAN
  /\ pc' = "start"
  /\ steps' = <<>> /\ loads' = <<>> /\ fed' = <<>> /\ requests' = <<>>
  /\ model' = "none" /\ img_size' = <<0, 0>> /\ img_array' = NoArray
  /\ prediction' = <<>> /\ class_index' = 0 /\ result' = ""
  /\ saliency_map' = NoOverlay /\ fig' = NoFig /\ explanation' = ""
  /\ shown' = <<>>
  /\ cacheHit' = FALSE
  /\ UNCHANGED <<net, cache>>

----------------------------------------------------------------------------
(* generate_saliency_map, lines 59-90, pixel by pixel.  A pixel is        *)
(* <<row, column>>; a value of the gradient map is gradients[p] / den.     *)

\* the side of the (square) image of the pixel-level model
Side == 22
\* a gradient magnitude is 0, 1 or GMax
GMax == 6

Margin == 10
KSize == 11
Percent == 80

Rows == 0..Side - 1
Cols == 0..Side - 1
Pixels == Rows \X Cols

\* an array of the image's shape is a[row][column]
At(a, p) == a[p[1]][p[2]]

Abs(a) == IF a < 0 THEN -a ELSE a

MinOf(a, b) == IF a <= b THEN a ELSE b

\* lines 68-69
Center(shape) == <<shape[1] \div 2, shape[2] \div 2>>

Radius(center) == MinOf(center[1], center[2]) - Margin

\* lines 70-71: x is the column, y the row
Mask(shape) ==
  LET center == Center(shape)
      radius == Radius(center)
  IN  {p \in (0..shape[1] - 1) \X (0..shape[2] - 1) :
         (p[2] - center[1]) * (p[2] - center[1])
           + (p[1] - center[2]) * (p[1] - center[2]) <= radius * radius}

\* lines 60-61: tf.math.abs, then tf.reduce_max over the channels
ChannelMax(t) ==
  LET a == [c \in DOMAIN t |-> Abs(t[c])]
  IN  CHOOSE m \in {a[c] : c \in DOMAIN a} : \A c \in DOMAIN a : a[c] <= m

\* the values of f on S in ascending order
RECURSIVE SortedValues(_, _)
SortedValues(f, S) ==
  IF S = {} THEN <<>>
  ELSE LET p == CHOOSE q \in S : \A r \in S : At(f, q) <= At(f, r)
       IN  <<At(f, p)>> \o SortedValues(f, S \ {p})

\* np.percentile(a, q), linear interpolation, of the values a (numerators
\* over d): the value at position q (n - 1) / 100 of the sorted values
PercentileFloor(f, S, q, d) ==
  LET a == SortedValues(f, S)
      lo == ((Len(a) - 1) * q) \div 100
  IN  [num |-> a[lo + 1], den |-> d]

Percentile(f, S, q, d) ==
  LET a == SortedValues(f, S)
      n == Len(a)
      lo == ((n - 1) * q) \div 100
      frac == ((n - 1) * q) % 100
      hi == MinOf(lo + 1, n - 1)
  IN  [num |-> 100 * a[lo + 1] + frac * (a[hi + 1] - a[lo + 1]),
       den |-> 100 * d]

\* cv2.GaussianBlur(ksize (11, 11), sigma 0): sigma is 2, the weights are
\* proportional to exp(-k^2 / 8); these are 16 exp(-k^2 / 8), rounded
Kernel == <<1, 2, 5, 10, 14, 16, 14, 10, 5, 2, 1>>

RECURSIVE SumSeq(_, _)
SumSeq(s, k) == IF k = 0 THEN 0 ELSE s[k] + SumSeq(s, k - 1)

KernelSum == SumSeq(Kernel, KSize)

\* BORDER_REFLECT_101: ... 2 1 | 0 1 2 ... n-1 | n-2 n-3 ...
Reflect101(i, n) ==
  IF i < 0 THEN -i ELSE IF i >= n THEN 2 * (n - 1) - i ELSE i

\* the source index of each tap of the kernel, for each index along a side
Taps == [i \in 0..Side - 1 |->
           [k \in 1..KSize |-> Reflect101(i + k - 1 - KSize \div 2, Side)]]

RECURSIVE RowSum(_, _, _, _)
RowSum(g, y, x, k) ==
  IF k = 0 THEN 0 ELSE Kernel[k] * g[y][Taps[x][k]] + RowSum(g, y, x, k - 1)

RECURSIVE ColSum(_, _, _, _)
ColSum(g, y, x, k) ==
  IF k = 0 THEN 0 ELSE Kernel[k] * g[Taps[y][k]][x] + ColSum(g, y, x, k - 1)

\* the blurred numerators, over KernelSum * KernelSum times the denominator
GaussianBlur(g) ==
  LET rows == [y \in Rows |-> [x \in Cols |-> RowSum(g, y, x, KSize)]]
  IN  [y \in Rows |-> [x \in Cols |-> ColSum(rows, y, x, KSize)]]

\* np.uint8(255 * v): the fraction is dropped and the integer wraps
ToUint8(num, d) == ((255 * num) \div d) % 256

\* the gradients of the pixel-level model: the centre and its four
\* neighbours take any of the magnitudes, every other pixel the largest; a
\* pixel's largest channel is its second, negative
Magnitudes == {0, 1, GMax}

Near == {p \in Pixels :
           Abs(p[1] - Side \div 2) + Abs(p[2] - Side \div 2) <= 1}

Tapes ==
  {[y \in Rows |-> [x \in Cols |->
      IF <<y, x>> \in Near THEN <<f[<<y, x>>] \div 2, -f[<<y, x>>], 0>>
                           ELSE <<0, -GMax, GMax \div 2>>]] :
     f \in [Near -> Magnitudes]}

SalIdle ==
  /\ sal_pc = "idle"
  /\ tape = <<>> /\ gradients = <<>> /\ den = 1 /\ mask = {}
  /\ brain_gradients = <<>> /\ threshold = [num |-> 0, den |-> 1]
  /\ heatmap = <<>> /\ ops = <<>>

SalInit ==
  /\ sal_pc = "tape"
  /\ tape \in Tapes
  /\ gradients = <<>> /\ den = 1 /\ mask = {}
  /\ brain_gradients = <<>> /\ threshold = [num |-> 0, den |-> 1]
  /\ heatmap = <<>> /\ ops = <<>>

\* lines 59-65
GradientMagnitude ==
  /\ UNCHANGED appVars
  /\ sal_pc = "tape"
  /\ gradients' = [y \in Rows |-> [x \in Cols |-> ChannelMax(tape[y][x])]]
  /\ ops' = Append(ops, "gradient magnitude")
  /\ sal_pc' = "gradients"
  /\ UNCHANGED <<tape, den, mask, brain_gradients, threshold, heatmap>>

\* lines 68-74
ApplyMask ==
  /\ UNCHANGED appVars
  /\ sal_pc = "gradients"
  /\ mask' = Mask(<<Side, Side>>)
  /\ gradients' = [y \in Rows |-> [x \in Cols |->
                     IF <<y, x>> \in mask' THEN gradients[y][x] ELSE 0]]
  /\ ops' = Append(ops, "circular mask")
  /\ sal_pc' = "masked"
  /\ UNCHANGED <<tape, den, brain_gradients, threshold, heatmap>>

\* lines 77-80
Normalize ==
  /\ UNCHANGED appVars
  /\ sal_pc = "masked"
  /\ LET brain == [p \in mask |-> At(gradients, p)]
         lo == CHOOSE v \in {brain[p] : p \in mask} : \A p \in mask : v <= brain[p]
         hi == CHOOSE v \in {brain[p] : p \in mask} : \A p \in mask : brain[p] <= v
     IN  IF hi > lo
         THEN /\ brain_gradients' = [p \in mask |-> brain[p] - lo]
              /\ den' = hi - lo
         ELSE /\ brain_gradients' = brain
              /\ den' = den
  /\ gradients' = [y \in Rows |-> [x \in Cols |->
                     IF <<y, x>> \in mask THEN brain_gradients'[<<y, x>>]
                                          ELSE gradients[y][x]]]
  /\ ops' = Append(ops, "normalisation")
  /\ sal_pc' = "normalised"
  /\ UNCHANGED <<tape, mask, threshold, heatmap>>

\* lines 83-84
ApplyThreshold ==
  /\ UNCHANGED appVars
  /\ sal_pc = "normalised"
  /\ threshold' = Percentile(gradients, mask, Percent, den)
  /\ gradients' = [y \in Rows |-> [x \in Cols |->
                     IF gradients[y][x] * threshold'.den < threshold'.num * den
                     THEN 0 ELSE gradients[y][x]]]
  /\ ops' = Append(ops, "percentile threshold")
  /\ sal_pc' = "thresholded"
  /\ UNCHANGED <<tape, den, mask, brain_gradients, heatmap>>

\* line 87
Blur ==
  /\ UNCHANGED appVars
  /\ sal_pc = "thresholded"
  /\ gradients' = GaussianBlur(gradients)
  /\ den' = den * KernelSum * KernelSum
  /\ ops' = Append(ops, "Gaussian blur")
  /\ sal_pc' = "blurred"
  /\ UNCHANGED <<tape, mask, brain_gradients, threshold, heatmap>>

\* line 90
ColorMap ==
  /\ UNCHANGED appVars
  /\ sal_pc = "blurred"
  /\ heatmap' = [y \in Rows |-> [x \in Cols |-> ToUint8(gradients[y][x], den)]]
  /\ ops' = Append(ops, "colour map")
  /\ sal_pc' = "heatmap"
  /\ UNCHANGED <<tape, gradients, den, mask, brain_gradients, threshold>>

----------------------------------------------------------------------------
(* The specifications *)

\* one run of the script
Init == AppInit /\ SalIdle

Next ==
  \/ NoUpload
  \/ LoadModel
  \/ ProcessImage
  \/ Predict(PredVectors)
  \/ SaliencyMap
  \/ ShowResults
  \/ GenerateExplanation

Spec == Init /\ [][Next]_vars

\* reruns of the script
SessionNext ==
  \/ NoUpload
  \/ LoadModel
  \/ ProcessImage
  \/ Predict(SessionVectors)
  \/ SaliencyMap
  \/ ShowResults
  \/ GenerateExplanation
  \/ Rerun

SessionSpec == Init /\ [][SessionNext]_vars

\* the body of generate_saliency_map; the page shows no file
SaliencyInit ==
  /\ uploaded_file = NoFile
  /\ selected_model = "Transfer Learning - Xception"
  /\ weightsPresent = [m \in Models |-> TRUE]
  /\ serviceUp = TRUE
  /\ net = [k \in {} |-> <<>>]
  /\ cache = [k \in {} |-> NoOverlay]
  /\ RunStart
  /\ SalInit

SaliencyNext ==
  \/ GradientMagnitude
  \/ ApplyMask
  \/ Normalize
  \/ ApplyThreshold
  \/ Blur
  \/ ColorMap

SaliencySpec == SaliencyInit /\ [][SaliencyNext]_vars

----------------------------------------------------------------------------
(* Properties *)

IsPrefix(s, t) == Len(s) <= Len(t) /\ \A i \in 1..Len(s) : s[i] = t[i]

Range(s) == {s[i] : i \in DOMAIN s}

\* i is the lowest index holding the maximum of v
IsFirstMax(v, i) ==
  /\ i \in DOMAIN v
  /\ \A j \in DOMAIN v : v[j] <= v[i]
  /\ \A j \in DOMAIN v : j < i => v[j] < v[i]

LinesOf(what) == {i \in DOMAIN shown : shown[i].what = what}

\* the side of the image the selected model expects
ExpectedSide == IF selected_model = "Transfer Learning - Xception" THEN 299
                ELSE 224

StepOrder == <<"load", "preprocess", "predict", "saliency", "results", "explain">>

(* C1: once a prediction is made, class_index is the lowest index holding  *)
(* the maximum of the vector the model returned, and the one line written  *)
(* as 'Predicted Class' shows the label at that index.                     *)
C1_PredictedClassIsArgmax ==
  prediction # <<>> =>
    /\ prediction = net[<<model, img_array.img>>]
    /\ IsFirstMax(prediction, class_index)
    /\ \E i \in DOMAIN shown :
         /\ LinesOf("Predicted Class") = {i}
         /\ shown[i].text = labels[class_index]
    /\ labels[class_index] \in {"Glioma", "Meningioma", "No tumor", "Pituitary"}
    /\ labels = <<"Glioma", "Meningioma", "No tumor", "Pituitary">>

\* a tie for the maximum that the lowest index wins
C1_Witness ==
  /\ prediction = <<0, 2, 2, 1>>
  /\ class_index = 2
  /\ shown[1].text = "Meningioma"

(* C2: for either model, once the saliency step has run the overlay exists *)
(* and has the shape of the image fed to the model: img_size rows and      *)
(* columns and 3 channels (no step of the shape chain refused its input).  *)
C2_OverlayHasInputShape ==
  "saliency" \in Range(steps) =>
    /\ saliency_map # NoOverlay
    /\ saliency_map.shape = <<img_size[1], img_size[2], 3>>
    /\ saliency_map.shape = Tail(img_array.shape)
    /\ saliency_map.shape = <<ExpectedSide, ExpectedSide, 3>>

C2_Witness ==
  /\ pc = "done"
  /\ selected_model = "Custom_CNN"
  /\ saliency_map.shape = <<224, 224, 3>>

(* C3: in a run with an uploaded file the load step calls the loader of    *)
(* exactly one model, the selected one (its weight file), the model held   *)
(* is never the other one, and every array given to the model, for         *)
(* prediction or for the saliency map, is 299x299 under Xception and       *)
(* 224x224 under Custom_CNN.                                               *)
C3_OneModelAndItsSize ==
  (uploaded_file # NoFile /\ pc # "start") =>
    /\ loads = <<IF selected_model = "Transfer Learning - Xception"
                 THEN "xception_model.weights.h5" ELSE "cnn_model.h5">>
    /\ model \in {"none", selected_model}
    /\ (pc # "fault" \/ Len(steps) > 1) => model = selected_model
    /\ model # "none" => img_size = <<ExpectedSide, ExpectedSide>>
    /\ \A i \in DOMAIN fed :
         /\ fed[i].model = selected_model
         /\ fed[i].shape = <<1, ExpectedSide, ExpectedSide, 3>>
    /\ saliency_map # NoOverlay =>
         saliency_map.img_size = <<ExpectedSide, ExpectedSide>>

C3_Witness ==
  /\ selected_model = "Custom_CNN"
  /\ Len(fed) = 2
  /\ fed[2].shape = <<1, 224, 224, 3>>
  /\ loads = <<"cnn_model.h5">>

(* C4: the steps begun in a run are a prefix of the fixed order, so each   *)
(* runs at most once and in order; a step begins only when the step        *)
(* before it has left its result; and with no uploaded file no step runs:  *)
(* no model is loaded and nothing is sent to the AI service.               *)
C4_LinearPass ==
  /\ IsPrefix(steps, StepOrder)
  /\ Len(loads) <= 1 /\ Len(requests) <= 1
  /\ "preprocess" \in Range(steps) => model # "none"
  /\ "predict" \in Range(steps) => img_array # NoArray
  /\ "saliency" \in Range(steps) => prediction # <<>>
  /\ "results" \in Range(steps) => saliency_map # NoOverlay
  /\ "explain" \in Range(steps) => fig # NoFig
  /\ requests # <<>> => "explain" \in Range(steps)
  /\ (pc = "done" /\ uploaded_file # NoFile) => steps = StepOrder
  /\ uploaded_file = NoFile =>
       /\ steps = <<>> /\ loads = <<>> /\ requests = <<>>
       /\ model = "none" /\ shown = <<>>

C4_Witness ==
  /\ pc = "done"
  /\ steps = StepOrder
  /\ Len(requests) = 1

(* C5: a step whose cause of failure is present ends the run in a fault:   *)
(* the step changes no variable of the script and displays nothing, what   *)
(* was displayed stays, and after the fault nothing happens any more (no   *)
(* retry, no later step).                                                  *)
C5_Step ==
  /\ pc = "fault" => UNCHANGED vars
  /\ (pc = "start" /\ uploaded_file # NoFile /\ ~weightsPresent[selected_model])
       => pc' = "fault"
  /\ (pc = "loaded" /\ uploaded_file.kind # "image") => pc' = "fault"
  /\ (pc = "charted" /\ ~serviceUp) => pc' = "fault"
  /\ (pc # "fault" /\ pc' = "fault") =>
       /\ UNCHANGED <<scriptVars, cache, net>>
       /\ Len(steps') = Len(steps) + 1
  /\ IsPrefix(shown, shown')

C5_FaultEndsRun == [][C5_Step]_vars

\* the AI service fails after everything else was displayed
C5_Witness ==
  /\ pc = "fault"
  /\ steps = StepOrder
  /\ Len(shown) = 10
  /\ explanation = ""

(* C6: every run starts with fresh script variables, and what it shows is  *)
(* what a run with an empty cache shows for the same file and selection:   *)
(* the model's vector for that image, its first argmax, and the overlay    *)
(* computed for exactly this model, image, class index and image size.     *)
C6_CacheIsTransparent ==
  /\ pc = "start" => RunStart
  /\ prediction # <<>> =>
       /\ prediction = net[<<selected_model, uploaded_file.id>>]
       /\ IsFirstMax(prediction, class_index)
  /\ saliency_map # NoOverlay =>
       /\ saliency_map.model = selected_model
       /\ saliency_map.img = uploaded_file.id
       /\ saliency_map.class_index = class_index
       /\ saliency_map.img_size = <<ExpectedSide, ExpectedSide>>
       /\ saliency_map.shape = <<ExpectedSide, ExpectedSide, 3>>

\* a cache hit while the cache holds overlays of other arguments too
C6_Witness ==
  /\ cacheHit
  /\ Cardinality(DOMAIN cache) >= 3
  /\ pc = "done"

(* C8: once the chart is drawn, the 'Predicted Class' line, the panel, the *)
(* one red bar and the prompt all name labels[argmax]; the confidence in   *)
(* the panel and in the prompt is that class's probability, the maximum;   *)
(* the chart lists each label once, in non-increasing order of             *)
(* probability, with one red and three blue bars.                          *)
C8_OnePredictedClass ==
  fig # NoFig =>
    \E am \in Classes :
      /\ IsFirstMax(prediction, am)
      /\ \E i \in DOMAIN shown :
           LinesOf("Predicted Class") = {i} /\ shown[i].text = labels[am]
      /\ \E i \in DOMAIN shown :
           /\ LinesOf("panel") = {i}
           /\ shown[i].text = labels[am]
           /\ shown[i].num = prediction[am]
           /\ \A j \in Classes : prediction[j] <= shown[i].num
      /\ Len(fig.y) = 4 /\ Len(fig.x) = 4 /\ Len(fig.marker_color) = 4
      /\ \A c \in Classes :
           Cardinality({i \in 1..4 : fig.y[i] = labels[c]}) = 1
      /\ \A i \in 1..4 : \A c \in Classes :
           fig.y[i] = labels[c] => fig.x[i] = prediction[c]
      /\ \A i \in 1..3 : fig.x[i] >= fig.x[i + 1]
      /\ \A i \in 1..4 :
           fig.marker_color[i] = IF fig.y[i] = labels[am] THEN "red" ELSE "blue"
      /\ Cardinality({i \in 1..4 : fig.marker_color[i] = "red"}) = 1
      /\ Cardinality({i \in 1..4 : fig.marker_color[i] = "blue"}) = 3
      /\ \A i \in DOMAIN requests :
           /\ requests[i].model_prediction = labels[am]
           /\ requests[i].percent = 100 * prediction[am]

\* a tie for the maximum: the red bar is not the top bar
C8_Witness ==
  /\ pc = "done"
  /\ prediction = <<2, 2, 0, 1>>
  /\ result = "Glioma"
  /\ fig.y[1] = "Meningioma"
  /\ fig.marker_color = <<"blue", "red", "blue", "blue">>
  /\ requests[1].model_prediction = "Glioma"

\* the circular mask as the claim states it: centre at the image centre,
\* radius half the shorter side minus 10
InCircle(p, height, width) ==
  LET cy == height \div 2
      cx == width \div 2
      r == (IF cy <= cx THEN cy ELSE cx) - 10
  IN  (p[2] - cx) * (p[2] - cx) + (p[1] - cy) * (p[1] - cy) <= r * r

Circle == {p \in Pixels : InCircle(p, Side, Side)}

\* the k-th smallest (k from 0) of the values f takes: more than k values
\* are at most it, at most k are below it
KthSmallest(f, k) ==
  CHOOSE v \in Range(f) :
    /\ Cardinality({p \in DOMAIN f : f[p] < v}) <= k
    /\ Cardinality({p \in DOMAIN f : f[p] <= v}) > k

\* 100 times the 80th percentile (linear interpolation) of f's values
P80Times100(f) ==
  LET n == Cardinality(DOMAIN f)
      lo == (80 * (n - 1)) \div 100
      frac == (80 * (n - 1)) % 100
      a == KthSmallest(f, lo)
      b == KthSmallest(f, IF lo + 1 < n THEN lo + 1 ELSE lo)
  IN  100 * a + frac * (b - a)

(* C7: the operations come in the order gradient magnitude, circular mask, *)
(* normalisation, percentile threshold, Gaussian blur, colour map; the     *)
(* circle of radius (half the shorter side - 10) about the centre lies     *)
(* inside the image for 299 and for 224; and just before the blur every    *)
(* pixel outside the circle is zero and every non-zero pixel lies in the   *)
(* circle with a value at or above the 80th percentile of the in-mask      *)
(* values.                                                                 *)
C7_MaskAndThreshold ==
  /\ IsPrefix(ops, <<"gradient magnitude", "circular mask", "normalisation",
                     "percentile threshold", "Gaussian blur", "colour map">>)
  /\ \A side \in {299, 224} :
       LET c == Center(<<side, side>>)
           r == Radius(c)
       IN  /\ c = <<side \div 2, side \div 2>>
           /\ r = side \div 2 - 10
           /\ r >= 0
           /\ c[1] - r >= 0 /\ c[1] + r <= side - 1
           /\ c[2] - r >= 0 /\ c[2] + r <= side - 1
  /\ sal_pc \in {"masked", "normalised", "thresholded"} =>
       /\ mask = Circle
       /\ \A p \in Pixels \ Circle : At(gradients, p) = 0
  /\ sal_pc = "thresholded" =>
       /\ DOMAIN brain_gradients = Circle
       /\ \A p \in Pixels :
            At(gradients, p) # 0 =>
              /\ p \in Circle
              /\ At(gradients, p) = brain_gradients[p]
              /\ 100 * At(gradients, p) >= P80Times100(brain_gradients)

\* the threshold falls between two values and removes a non-zero pixel
C7_Witness ==
  /\ sal_pc = "thresholded"
  /\ \A p \in Circle : 100 * brain_gradients[p] # threshold.num
  /\ \E p \in Circle : At(gradients, p) # 0
  /\ \E p \in Circle : At(gradients, p) = 0 /\ brain_gradients[p] # 0
  /\ \E p \in Pixels \ Circle : ChannelMax(At(tape, p)) # 0

(* C9: at the colour-mapping step every value of the map lies in [0, 1],   *)
(* so 255 * value lies in 0..255 and the 8-bit intensity is not wrapped.   *)
C9_HeatValuesInUnitRange ==
  /\ sal_pc \in {"blurred", "heatmap"} =>
       \A p \in Pixels : 0 <= At(gradients, p) /\ At(gradients, p) <= den
  /\ sal_pc = "heatmap" =>
       \A p \in Pixels : At(heatmap, p) = (255 * At(gradients, p)) \div den

====
